---- MODULE Spec2Model ----
(***************************************************************************)
(* Fixed-capacity allocators of C-allocators-collection:                   *)
(*   arena_*     (arena allocator,  src/unnamed/part_000)                  *)
(*   mem_stack_* (stack allocator,  src/pool_allocator.h, lines 239-353)   *)
(*   pool_*      (pool allocator,   src/pool.h)                            *)
(* size_t is modelled as an unsigned word of WordBits bits; every size_t   *)
(* expression of the source is reduced modulo 2^WordBits. Pointers are     *)
(* addresses (NULL is 0). A driver creates one allocator at a time, calls  *)
(* its operations with arguments drawn from small sets, and tears it down. *)
(***************************************************************************)
EXTENDS Integers, Sequences, FiniteSets

VARIABLES
  heap,       \* blocks obtained from malloc/calloc and not yet freed
  acquired,   \* history: successful malloc/calloc calls since the latest init began
  released,   \* history: free calls since the latest init began
  arena,      \* arena_t   fields (zeroed while no arena exists)
  stack,      \* MemStack  fields (zeroed while no stack exists)
  pool,       \* pool_t    fields (zeroed while no pool exists)
  fault,      \* "none", or the undefined operation that stopped the program
  held,       \* history: chunk pointers returned by pool_alloc and not yet given back
  last,       \* the most recent call: [op, arg, ret]
  views,      \* history: regions [off, len] handed out since init/reset
  requested,  \* history: bytes requested since init/reset, counted up to capacity + 1
  clean,      \* history: only allocate calls since init/reset
  returned,   \* history: chunk pointers returned by pool_alloc since pool_init
  honest      \* history: every pool_free since pool_init was given a pointer in returned

vars == <<heap, acquired, released, arena, stack, pool, fault, held, last, views,
          requested, clean, returned, honest>>

---------------------------------------------------------------------------
\* Bounds of the model.

\* width of size_t in bits
WordBits == 6
\* width of int in bits
IntBits == 3
\* largest capacity the driver passes to arena_init / mem_stack_init
MaxCap == 4
\* most regions recorded in views before the driver resets or pops
MaxViews == 3
\* longest sequence of arena_alloc calls compared after arena_reset
MaxRun == 2
\* largest chunk_size and n_chunks the driver passes to pool_init
MaxChunkSize == 3
MaxChunks == 3

---------------------------------------------------------------------------
\* Machine words and the system allocator.

NULL == 0
SIZE_MAX == 2^WordBits - 1
\* conversion of an integer expression to size_t
ToSize(x) == x % (SIZE_MAX + 1)
\* the range of int
INT_MIN == -(2^(IntBits - 1))
INT_MAX == 2^(IntBits - 1) - 1
\* largest object calloc can return
PTRDIFF_MAX == SIZE_MAX \div 2
\* address calloc returns for an allocator's data buffer
DataAddr == 8
\* bits in a byte of the ledger
CHAR_BIT == 8

\* byte counts the driver passes: around the capacities, and near SIZE_MAX
Bytes == (0..(MaxCap + 1)) \cup ((SIZE_MAX - MaxCap)..SIZE_MAX)
Caps == 0..MaxCap
ChunkSizes == 0..MaxChunkSize
ChunkCounts == 0..MaxChunks
\* (chunk_size, n_chunks) pairs the driver passes to pool_init: the small ones,
\* and one whose ledger is longer than a byte
PoolShapes == (ChunkSizes \X ChunkCounts) \cup {<<1, CHAR_BIT + 1>>}
\* pairs with n_chunks within 7 of SIZE_MAX, which calloc serves for zero-size chunks
WrapShapes == {<<0, SIZE_MAX>>, <<0, SIZE_MAX - 6>>}
\* pointers the driver passes to pool_free: NULL, below, inside and above the buffer
Ptrs == 0..(DataAddr + MaxChunks * MaxChunkSize + MaxChunkSize)

NoPool == [chunk_size |-> 0, n_chunks |-> 0, data |-> NULL, ledger |-> <<>>]
NoBuf == [data |-> NULL, size |-> 0, capacity |-> 0]
Call(op, arg, ret) == [op |-> op, arg |-> arg, ret |-> ret]
\* the running total of requested bytes, counted no further than capacity + 1
Total(sum, capacity) == IF sum > capacity THEN capacity + 1 ELSE sum
NoAllocator == heap = {}

\* calloc(nmemb, size) can succeed only for an object of at most PTRDIFF_MAX bytes
CallocCanSucceed(nmemb, size) == nmemb * size <= PTRDIFF_MAX

\* the system allocator's books: live blocks, counts of acquisitions and
\* releases, and whether a block that was not live has been freed
Books == [live |-> heap, acq |-> acquired, rel |-> released, twice |-> FALSE]
\* the books when an init call begins
Opened == [live |-> heap, acq |-> 0, rel |-> 0, twice |-> FALSE]
\* a successful malloc/calloc of block b
Acquire(h, b) == [h EXCEPT !.live = @ \cup {b}, !.acq = @ + 1]
\* free(b)
Release(h, b) ==
  [h EXCEPT !.live = @ \ {b}, !.rel = @ + 1, !.twice = @ \/ b \notin h.live]
\* the books written back to the state
Settle(h) ==
  /\ heap' = h.live
  /\ acquired' = h.acq
  /\ released' = h.rel
  /\ fault' = IF h.twice THEN "double free" ELSE fault

---------------------------------------------------------------------------
\* Arena allocator.

\* mutant of arena_alloc_refuses: capacity - bytes evaluated without the
\* bytes > capacity test before it
arena_alloc_refuses_underflow(a, bytes) ==
  a.size > ToSize(a.capacity - bytes)

\* mutant of arena_alloc_refuses: the cursor is not compared
arena_alloc_refuses_size_blind(a, bytes) == bytes > a.capacity

\* the capacity test of arena_alloc: TRUE when the request is refused
arena_alloc_refuses(a, bytes) ==
  bytes > a.capacity \/ a.size > ToSize(a.capacity - bytes)

\* the pointer arena_alloc returns
arena_alloc_ret(a, bytes) ==
  IF arena_alloc_refuses(a, bytes) THEN NULL ELSE a.data + a.size

\* mutant of arena_alloc_post: a refused request uses up what is left
arena_alloc_post_clamped(a, bytes) ==
  IF arena_alloc_refuses(a, bytes) THEN [a EXCEPT !.size = a.capacity]
  ELSE [a EXCEPT !.size = ToSize(a.size + bytes)]

\* the arena after arena_alloc
arena_alloc_post(a, bytes) ==
  IF arena_alloc_refuses(a, bytes) THEN a
  ELSE [a EXCEPT !.size = ToSize(a.size + bytes)]

\* mutant of arena_reset_post: the cursor is left where it was
arena_reset_post_kept(a) == a

\* mutant of arena_reset_post: the capacity is zeroed with the cursor
arena_reset_post_emptied(a) == [a EXCEPT !.size = 0, !.capacity = 0]

\* the arena after arena_reset
arena_reset_post(a) == [a EXCEPT !.size = 0]

\* the results of calling arena_alloc on a with each byte count of seq in turn:
\* whether the call succeeded and the offset of the pointer into the buffer
RECURSIVE arena_alloc_run(_, _)
arena_alloc_run(a, seq) ==
  IF seq = <<>> THEN <<>>
  ELSE LET ret == arena_alloc_ret(a, Head(seq))
       IN  <<[ok |-> ret # NULL, off |-> IF ret = NULL THEN 0 ELSE ret - a.data]>>
             \o arena_alloc_run(arena_alloc_post(a, Head(seq)), Tail(seq))

\* the arena_t that arena_init builds
arena_init_post(capacity) ==
  [data |-> DataAddr, size |-> 0, capacity |-> capacity]

\* the allocator calls of arena_init: okHandle and okData tell whether the
\* malloc of the handle and the calloc of the buffer succeed
arena_init_heap(h, okHandle, okData) ==
  IF ~okHandle THEN h
  ELSE IF ~okData THEN Release(Acquire(h, "arena"), "arena")
  ELSE Acquire(Acquire(h, "arena"), "arena.data")

\* the allocator calls of arena_deinit
arena_deinit_heap(h) == Release(Release(h, "arena.data"), "arena")

arena_init(capacity) ==
  /\ NoAllocator
  /\ \E okHandle \in BOOLEAN, okData \in BOOLEAN :
       LET gotData == okData /\ CallocCanSucceed(capacity, 1)
       IN  /\ Settle(arena_init_heap(Opened, okHandle, gotData))
           /\ IF okHandle /\ gotData
              THEN /\ arena' = arena_init_post(capacity)
                   /\ last' = Call("arena_init", capacity, 1)
              ELSE /\ arena' = arena
                   /\ last' = Call("arena_init", capacity, NULL)
  /\ views' = <<>>
  /\ requested' = 0
  /\ clean' = TRUE
  /\ UNCHANGED <<stack, pool, held>>
  /\ UNCHANGED <<returned, honest>>

arena_alloc(bytes) ==
  /\ "arena" \in heap
  /\ Len(views) < MaxViews
  /\ requested' = Total(requested + bytes, arena.capacity)
  /\ last' = Call("arena_alloc", bytes, arena_alloc_ret(arena, bytes))
  /\ arena' = arena_alloc_post(arena, bytes)
  /\ views' = IF arena_alloc_ret(arena, bytes) = NULL THEN views
              ELSE Append(views, [off |-> arena_alloc_ret(arena, bytes) - arena.data,
                                  len |-> bytes])
  /\ UNCHANGED <<heap, acquired, released, stack, clean, pool, fault, held>>
  /\ UNCHANGED <<returned, honest>>

arena_reset ==
  /\ "arena" \in heap
  /\ arena' = arena_reset_post(arena)
  /\ last' = Call("arena_reset", 0, 0)
  /\ views' = <<>>
  /\ requested' = 0
  /\ clean' = TRUE
  /\ UNCHANGED <<heap, acquired, released, stack, pool, fault, held>>
  /\ UNCHANGED <<returned, honest>>

arena_deinit ==
  /\ "arena" \in heap
  /\ Settle(arena_deinit_heap(Books))
  /\ arena' = NoBuf
  /\ last' = Call("arena_deinit", 0, 0)
  /\ views' = <<>>
  /\ requested' = 0
  /\ clean' = TRUE
  /\ UNCHANGED <<stack, pool, held>>
  /\ UNCHANGED <<returned, honest>>

---------------------------------------------------------------------------
\* Stack allocator.

\* mutant of mem_stack_alloc_refuses: the limit is off by one
mem_stack_alloc_refuses_lax(s, bytes) == ToSize(s.size + bytes) > s.capacity + 1

\* the capacity test of mem_stack_alloc: TRUE when the request is refused
mem_stack_alloc_refuses(s, bytes) == ToSize(s.size + bytes) > s.capacity

\* the pointer mem_stack_alloc returns
mem_stack_alloc_ret(s, bytes) ==
  IF mem_stack_alloc_refuses(s, bytes) THEN NULL ELSE s.data + s.size

\* mutant of mem_stack_alloc_post: the cursor is not advanced
mem_stack_alloc_post_stuck(s, bytes) == s

\* the stack after mem_stack_alloc
mem_stack_alloc_post(s, bytes) ==
  IF mem_stack_alloc_refuses(s, bytes) THEN s
  ELSE [s EXCEPT !.size = ToSize(s.size + bytes)]

\* the values a caller of mem_stack_pop may read as its result. The function is
\* defined void, so the 0 and 1 of its return statements are dropped; a caller
\* compiled against the int declaration reads an int that was never set, which
\* may be any int, whatever s and bytes are
mem_stack_pop_ret(s, bytes) == INT_MIN..INT_MAX

\* mutant of mem_stack_pop_post: bytes is subtracted without the bytes > size test
mem_stack_pop_post_unchecked(s, bytes) ==
  [s EXCEPT !.size = ToSize(s.size - bytes)]

\* the stack after mem_stack_pop
mem_stack_pop_post(s, bytes) ==
  IF bytes > s.size THEN s
  ELSE [s EXCEPT !.size = ToSize(s.size - bytes)]

\* the MemStack that mem_stack_init builds
mem_stack_init_post(bytes) ==
  [data |-> DataAddr, size |-> 0, capacity |-> bytes]

\* the allocator calls of mem_stack_init
mem_stack_init_heap(h, okHandle, okData) ==
  IF ~okHandle THEN h
  ELSE IF ~okData THEN Release(Acquire(h, "stack"), "stack")
  ELSE Acquire(Acquire(h, "stack"), "stack.data")

\* the allocator calls of mem_stack_free
mem_stack_free_heap(h) == Release(Release(h, "stack.data"), "stack")

mem_stack_init(bytes) ==
  /\ NoAllocator
  /\ \E okHandle \in BOOLEAN, okData \in BOOLEAN :
       LET gotData == okData /\ CallocCanSucceed(bytes, 1)
       IN  /\ Settle(mem_stack_init_heap(Opened, okHandle, gotData))
           /\ IF okHandle /\ gotData
              THEN /\ stack' = mem_stack_init_post(bytes)
                   /\ last' = Call("mem_stack_init", bytes, 1)
              ELSE /\ stack' = stack
                   /\ last' = Call("mem_stack_init", bytes, NULL)
  /\ views' = <<>>
  /\ requested' = 0
  /\ clean' = TRUE
  /\ UNCHANGED <<arena, pool, held>>
  /\ UNCHANGED <<returned, honest>>

mem_stack_alloc(bytes) ==
  /\ "stack" \in heap
  /\ Len(views) < MaxViews
  /\ requested' = Total(requested + bytes, stack.capacity)
  /\ last' = Call("mem_stack_alloc", bytes, mem_stack_alloc_ret(stack, bytes))
  /\ stack' = mem_stack_alloc_post(stack, bytes)
  /\ views' = IF mem_stack_alloc_ret(stack, bytes) = NULL \/ ~clean THEN views
              ELSE Append(views, [off |-> mem_stack_alloc_ret(stack, bytes) - stack.data,
                                  len |-> bytes])
  /\ UNCHANGED <<heap, acquired, released, arena, clean, pool, fault, held>>
  /\ UNCHANGED <<returned, honest>>

mem_stack_pop(bytes) ==
  /\ "stack" \in heap
  /\ \E ret \in mem_stack_pop_ret(stack, bytes) :
       last' = Call("mem_stack_pop", bytes, ret)
  /\ stack' = mem_stack_pop_post(stack, bytes)
  /\ views' = <<>>
  /\ clean' = FALSE
  /\ UNCHANGED <<heap, acquired, released, arena, requested, pool, fault, held>>
  /\ UNCHANGED <<returned, honest>>

mem_stack_free ==
  /\ "stack" \in heap
  /\ Settle(mem_stack_free_heap(Books))
  /\ stack' = NoBuf
  /\ last' = Call("mem_stack_free", 0, 0)
  /\ views' = <<>>
  /\ requested' = 0
  /\ clean' = TRUE
  /\ UNCHANGED <<arena, pool, held>>
  /\ UNCHANGED <<returned, honest>>

---------------------------------------------------------------------------
\* Pool allocator.

\* bit k (0 = least significant) of byte b
Bit(b, k) == (b \div 2^k) % 2

\* the ledger byte that holds the bit of chunk index (ledger[index / 8])
LedgerByte(bitmap, index) == bitmap[(index \div CHAR_BIT) + 1]

\* CHECK_BIT: non-zero when the bit of chunk index is set
CHECK_BIT(bitmap, index) ==
  Bit(LedgerByte(bitmap, index), index % CHAR_BIT) * 2^(index % CHAR_BIT)

\* SET_BIT: the ledger with the bit of chunk index set
SET_BIT(bitmap, index) ==
  IF Bit(LedgerByte(bitmap, index), index % CHAR_BIT) = 1
  THEN bitmap
  ELSE [bitmap EXCEPT ![(index \div CHAR_BIT) + 1] = @ + 2^(index % CHAR_BIT)]

\* CLEAR_BIT: the ledger with the bit of chunk index cleared
CLEAR_BIT(bitmap, index) ==
  IF Bit(LedgerByte(bitmap, index), index % CHAR_BIT) = 0
  THEN bitmap
  ELSE [bitmap EXCEPT ![(index \div CHAR_BIT) + 1] = @ - 2^(index % CHAR_BIT)]

\* size in bytes of the ledger pool_init allocates
ledger_size(n_chunks) == ToSize(n_chunks + 7) \div 8

\* the ledger has a byte for the bit of chunk index
LedgerCovers(bitmap, index) == (index \div CHAR_BIT) + 1 <= Len(bitmap)

\* the chunk indices whose bit lies inside the ledger and is clear
ClearBits(p) ==
  {i \in 0..(p.n_chunks - 1) :
     LedgerCovers(p.ledger, i) /\ CHECK_BIT(p.ledger, i) = 0}

\* the scan of pool_alloc: the first index below n_chunks whose bit is clear,
\* or n_chunks when the loop runs to its end
FirstFree(p) ==
  LET free == ClearBits(p)
  IN  IF free = {} THEN p.n_chunks
      ELSE CHOOSE i \in free : \A j \in free : i <= j

\* the scan of pool_alloc reads past the end of the ledger: every bit inside
\* the ledger is set and some index below n_chunks has no byte
pool_alloc_overruns(p) ==
  /\ ClearBits(p) = {}
  /\ \E i \in 0..(p.n_chunks - 1) : ~LedgerCovers(p.ledger, i)

\* mutant of ChunkPtr: the index is not scaled by chunk_size
ChunkPtr_unscaled(p, i) == ToSize(p.data + i)

\* the pointer pool_alloc returns for chunk i
ChunkPtr(p, i) == ToSize(p.data + ToSize(i * p.chunk_size))

\* mutant of ChunkIndex: the byte offset is not divided by chunk_size
ChunkIndex_offset(p, chunk) == ToSize(chunk - p.data)

\* the index pool_free computes from a chunk pointer (chunk_size non-zero)
ChunkIndex(p, chunk) == ToSize(chunk - p.data) \div p.chunk_size

\* the pointer pool_alloc returns
pool_alloc_ret(p) ==
  IF FirstFree(p) < p.n_chunks THEN ChunkPtr(p, FirstFree(p)) ELSE NULL

\* the pool after pool_alloc
pool_alloc_post(p) ==
  IF FirstFree(p) < p.n_chunks
  THEN [p EXCEPT !.ledger = SET_BIT(p.ledger, FirstFree(p))]
  ELSE p

\* the pool after pool_free clears the bit of a computed index
pool_free_index(p, index) ==
  IF index < p.n_chunks
  THEN [p EXCEPT !.ledger = CLEAR_BIT(p.ledger, index)]
  ELSE p

\* the pool after pool_free (chunk_size non-zero)
pool_free_post(p, chunk) ==
  IF chunk = NULL \/ p.data = NULL THEN p
  ELSE pool_free_index(p, ChunkIndex(p, chunk))

\* the pool_t that pool_init builds
pool_init_post(chunk_size, n_chunks) ==
  [chunk_size |-> chunk_size, n_chunks |-> n_chunks, data |-> DataAddr,
   ledger |-> [k \in 1..ledger_size(n_chunks) |-> 0]]

\* mutant of pool_init_heap: the buffer is not freed when the ledger's calloc fails
pool_init_heap_leak(h, okHandle, okData, okLedger) ==
  IF ~okHandle THEN h
  ELSE IF ~okData THEN Release(Acquire(h, "pool"), "pool")
  ELSE IF ~okLedger
  THEN Release(Acquire(Acquire(h, "pool"), "pool.data"), "pool")
  ELSE Acquire(Acquire(Acquire(h, "pool"), "pool.data"), "pool.ledger")

\* the allocator calls of pool_init
pool_init_heap(h, okHandle, okData, okLedger) ==
  IF ~okHandle THEN h
  ELSE IF ~okData THEN Release(Acquire(h, "pool"), "pool")
  ELSE IF ~okLedger
  THEN Release(Release(Acquire(Acquire(h, "pool"), "pool.data"),
                       "pool.data"), "pool")
  ELSE Acquire(Acquire(Acquire(h, "pool"), "pool.data"), "pool.ledger")

\* the allocator calls of pool_deinit
pool_deinit_heap(h) ==
  Release(Release(Release(h, "pool.data"), "pool.ledger"), "pool")

pool_init(chunk_size, n_chunks) ==
  /\ NoAllocator
  /\ \E okHandle \in BOOLEAN, okData \in BOOLEAN, okLedger \in BOOLEAN :
       LET gotData == okData /\ CallocCanSucceed(n_chunks, chunk_size)
           gotLedger == okLedger /\ CallocCanSucceed(ledger_size(n_chunks), 1)
       IN  /\ Settle(pool_init_heap(Opened, okHandle, gotData, gotLedger))
           /\ IF okHandle /\ gotData /\ gotLedger
              THEN /\ pool' = pool_init_post(chunk_size, n_chunks)
                   /\ last' = Call("pool_init", 0, 1)
              ELSE /\ pool' = pool
                   /\ last' = Call("pool_init", 0, NULL)
  /\ held' = {}
  /\ views' = <<>>
  /\ requested' = 0
  /\ clean' = TRUE
  /\ UNCHANGED <<arena, stack>>
  /\ returned' = {}
  /\ honest' = TRUE

pool_alloc ==
  /\ "pool" \in heap
  /\ fault = "none"
  /\ IF pool_alloc_overruns(pool)
     THEN \* read outside the ledger: the scan may take any bit it finds there
          \* as clear or run to its end
          /\ fault' = "ledger out of bounds"
          /\ \E r \in {NULL, ChunkPtr(pool, 0)} : last' = Call("pool_alloc", 0, r)
          /\ UNCHANGED <<pool, held>>
     ELSE /\ pool' = pool_alloc_post(pool)
          /\ last' = Call("pool_alloc", 0, pool_alloc_ret(pool))
          /\ held' = IF pool_alloc_ret(pool) = NULL THEN held
                     ELSE held \cup {pool_alloc_ret(pool)}
          /\ fault' = fault
  /\ UNCHANGED <<heap, acquired, released, arena, stack, views, requested, clean>>
  /\ returned' = IF last'.ret = NULL THEN returned ELSE returned \cup {last'.ret}
  /\ honest' = honest

pool_free(chunk) ==
  /\ "pool" \in heap
  /\ fault = "none"
  /\ last' = Call("pool_free", chunk, 0)
  /\ clean' = FALSE
  /\ IF chunk # NULL /\ pool.data # NULL /\ pool.chunk_size = 0
     THEN \* division by zero: the program traps, or the quotient reads as 0
          \/ /\ fault' = "division by zero"
             /\ UNCHANGED <<pool, held>>
          \/ /\ 0 < pool.n_chunks => LedgerCovers(pool.ledger, 0)
             /\ fault' = fault
             /\ held' = held \ {chunk}
             /\ pool' = pool_free_index(pool, 0)
          \/ /\ 0 < pool.n_chunks /\ ~LedgerCovers(pool.ledger, 0)
             /\ fault' = "ledger out of bounds"
             /\ UNCHANGED <<pool, held>>
     ELSE /\ pool' = pool_free_post(pool, chunk)
          /\ held' = held \ {chunk}
          /\ fault' = fault
  /\ UNCHANGED <<heap, acquired, released, arena, stack, views, requested>>
  /\ honest' = (honest /\ chunk \in returned)
  /\ returned' = returned

\* pool_free called with a NULL pool handle
pool_free_null_handle(chunk) ==
  /\ "pool" \in heap
  /\ fault = "none"
  /\ last' = Call("pool_free(NULL)", chunk, 0)
  /\ UNCHANGED <<heap, acquired, released, arena, stack, pool, fault, held,
                 views, requested, clean>>
  /\ UNCHANGED <<returned, honest>>

pool_deinit ==
  /\ "pool" \in heap
  /\ fault = "none"
  /\ Settle(pool_deinit_heap(Books))
  /\ pool' = NoPool
  /\ last' = Call("pool_deinit", 0, 0)
  /\ held' = {}
  /\ views' = <<>>
  /\ requested' = 0
  /\ clean' = TRUE
  /\ UNCHANGED <<arena, stack>>
  /\ returned' = {}
  /\ honest' = TRUE

---------------------------------------------------------------------------

Init ==
  /\ heap = {}
  /\ acquired = 0
  /\ released = 0
  /\ arena = NoBuf
  /\ stack = NoBuf
  /\ pool = NoPool
  /\ fault = "none"
  /\ held = {}
  /\ last = Call("none", 0, 0)
  /\ views = <<>>
  /\ requested = 0
  /\ clean = TRUE
  /\ returned = {}
  /\ honest = TRUE

Next ==
  \/ \E c \in Caps : arena_init(c)
  \/ \E b \in Bytes : arena_alloc(b)
  \/ arena_reset
  \/ arena_deinit
  \/ \E c \in Caps : mem_stack_init(c)
  \/ \E b \in Bytes : mem_stack_alloc(b)
  \/ \E b \in Bytes : mem_stack_pop(b)
  \/ mem_stack_free
  \/ \E shape \in PoolShapes \cup WrapShapes : pool_init(shape[1], shape[2])
  \/ pool_alloc
  \/ \E p \in Ptrs : pool_free(p)
  \/ \E p \in {NULL, DataAddr} : pool_free_null_handle(p)
  \/ pool_deinit

Spec == Init /\ [][Next]_vars

---------------------------------------------------------------------------
\* Properties.

\* the bytes of a region, as offsets into the buffer
Region(v) == v.off..(v.off + v.len - 1)

BumpLive == "arena" \in heap \/ "stack" \in heap
\* the arena or stack that exists
Buf == IF "arena" \in heap THEN arena ELSE stack
AllocOps == {"arena_alloc", "mem_stack_alloc"}

\* C1: on a freshly initialized arena or stack, while the bytes requested so
\* far sum to at most the capacity, every allocate call has succeeded and the
\* regions handed out are pairwise disjoint and lie within [0, capacity).
C1_WithinCapacityAllocsSucceedDisjoint ==
  (BumpLive /\ clean /\ requested <= Buf.capacity) =>
    /\ (last.op \in AllocOps => last.ret # NULL)
    /\ \A i \in 1..Len(views) : Region(views[i]) \subseteq 0..(Buf.capacity - 1)
    /\ \A i \in 1..Len(views) : \A j \in 1..Len(views) :
         i # j => Region(views[i]) \cap Region(views[j]) = {}

C1_Witness ==
  /\ "stack" \in heap /\ clean
  /\ requested = stack.capacity
  /\ Len(views) >= 2
  /\ \A i \in 1..Len(views) : views[i].len > 0

\* C2: mem_stack_alloc fails whenever cursor + bytes exceeds the capacity in
\* unbounded arithmetic, so a successful call never leaves the view past the
\* capacity and never moves the cursor backwards.
C2_StackAllocRefusesOverCapacity ==
  [][\A b \in Bytes :
       mem_stack_alloc(b) =>
         /\ (stack.size + b > stack.capacity =>
               last'.ret = NULL /\ stack' = stack)
         /\ (last'.ret # NULL =>
               /\ (last'.ret - stack.data) + b <= stack.capacity
               /\ stack'.size >= stack.size)]_vars

\* C3: arena_alloc fails exactly when cursor + bytes exceeds the capacity in
\* unbounded arithmetic; otherwise it returns the address of the old cursor
\* and advances the cursor by exactly bytes.
C3_ArenaAllocExact ==
  [][\A b \in Bytes :
       arena_alloc(b) =>
         IF arena.size + b > arena.capacity
         THEN last'.ret = NULL /\ arena' = arena
         ELSE /\ last'.ret = arena.data + arena.size
              /\ arena' = [arena EXCEPT !.size = arena.size + b]]_vars

C3_Witness ==
  /\ "arena" \in heap
  /\ last.op = "arena_alloc" /\ last.ret = NULL
  /\ last.arg > arena.capacity
  /\ arena.size > 0
  /\ arena.size <= ToSize(arena.capacity - last.arg)

\* C4: on an arena or stack whose cursor is 0, allocate(capacity + 1) returns
\* NULL.
C4_FreshAllocOverCapacityFails ==
  [][/\ \A b \in Bytes :
          (arena_alloc(b) /\ arena.size = 0 /\ b = arena.capacity + 1)
            => last'.ret = NULL
     /\ \A b \in Bytes :
          (mem_stack_alloc(b) /\ stack.size = 0 /\ b = stack.capacity + 1)
            => last'.ret = NULL]_vars

C4_Witness ==
  /\ "stack" \in heap /\ clean
  /\ last.op = "mem_stack_alloc" /\ last.arg = stack.capacity + 1
  /\ last.ret = NULL
  /\ stack.size = 0 /\ views = <<>>

\* C5: right after arena_reset, arena_alloc(capacity) succeeds and returns the
\* start of the buffer, and a second arena_reset changes nothing.
C5_ResetRestoresCapacityIdempotent ==
  [][last.op = "arena_reset" =>
       /\ \A b \in Bytes :
            (arena_alloc(b) /\ b = arena.capacity) =>
              last'.ret = arena.data /\ arena'.size = arena.capacity
       /\ arena_reset => (arena' = arena /\ views' = views)]_vars

C5_Witness ==
  /\ "arena" \in heap
  /\ arena.capacity > 0
  /\ last.op = "arena_alloc" /\ last.arg = arena.capacity
  /\ last.ret = arena.data
  /\ Len(views) = 1

\* C6: mem_stack_pop(bytes) with bytes <= cursor returns 1 and lowers the
\* cursor by exactly bytes, capacity unchanged; with bytes > cursor it returns 0
\* and leaves the stack unchanged.
C6_PopExact ==
  [][\A b \in Bytes :
       mem_stack_pop(b) =>
         IF b <= stack.size
         THEN /\ last'.ret = 1
              /\ stack' = [stack EXCEPT !.size = stack.size - b]
         ELSE /\ last'.ret = 0
              /\ stack' = stack]_vars

\* C6 without the value returned: the effect of mem_stack_pop on the cursor.
C6_PopCursorExact ==
  [][\A b \in Bytes :
       mem_stack_pop(b) =>
         IF b <= stack.size
         THEN stack' = [stack EXCEPT !.size = stack.size - b]
         ELSE stack' = stack]_vars

\* every bit of the chunks 0..n_chunks-1 is set
Full(p) == \A i \in 0..(p.n_chunks - 1) : CHECK_BIT(p.ledger, i) # 0
\* the chunk-aligned addresses of the buffer
ChunkAddrs(p) == {p.data + i * p.chunk_size : i \in 0..(p.n_chunks - 1)}

\* C7: on a pool with chunk_size >= 1 on which only pool_alloc has been called
\* since pool_init, a call made while fewer than n_chunks pointers have been
\* returned returns a new pointer of the form data + i * chunk_size with
\* 0 <= i < n_chunks, and a call made after n_chunks pointers returns NULL.
C7_FreshPoolHandsOutEveryChunkOnce ==
  [][(pool_alloc /\ clean /\ pool.chunk_size >= 1) =>
       IF Cardinality(held) < pool.n_chunks
       THEN /\ last'.ret # NULL
            /\ last'.ret \notin held
            /\ last'.ret \in ChunkAddrs(pool)
       ELSE last'.ret = NULL]_vars

C7_Witness ==
  /\ "pool" \in heap /\ clean
  /\ pool.chunk_size >= 2 /\ pool.n_chunks >= 2
  /\ Cardinality(held) = pool.n_chunks
  /\ last.op = "pool_alloc" /\ last.ret = NULL

\* C8: when pool_free(p) is called on a full pool (chunk_size >= 1) with a
\* pointer p that pool_alloc returned, the next pool_alloc returns exactly p and
\* the one after it returns NULL.
C8_FreeThenAllocReturnsSameChunk ==
  [][\A p \in Ptrs :
       (pool_free(p) /\ pool.chunk_size >= 1 /\ Full(pool) /\ p \in held) =>
         /\ pool_alloc_ret(pool') = p
         /\ pool_alloc_ret(pool_alloc_post(pool')) = NULL]_vars

C8_Witness ==
  /\ "pool" \in heap /\ ~clean
  /\ pool.chunk_size >= 2 /\ pool.n_chunks >= 2
  /\ Full(pool)
  /\ last.op = "pool_alloc"
  /\ last.ret \in ChunkAddrs(pool)
  /\ last.ret # pool.data + (pool.n_chunks - 1) * pool.chunk_size
  /\ held = ChunkAddrs(pool)

\* C9: a pool initialized with chunk_size = 0 or n_chunks = 0 never returns a
\* chunk from pool_alloc, and pool_free never performs an undefined operation
\* on it.
C9_DegeneratePoolIsEmptyAndSafe ==
  ("pool" \in heap /\ (pool.chunk_size = 0 \/ pool.n_chunks = 0)) =>
    /\ (last.op = "pool_alloc" => last.ret = NULL)
    /\ fault = "none"

\* C10: pool_free on a pointer that is not a multiple of chunk_size away from
\* the buffer's start leaves the ledger unchanged.
C10_MisalignedFreeIsNoOp ==
  [][\A p \in Ptrs :
       (pool_free(p) /\ pool.chunk_size >= 1
          /\ (p - pool.data) % pool.chunk_size # 0) =>
         pool'.ledger = pool.ledger]_vars

\* a pointer outside [data, data + chunk_size * n_chunks)
Foreign(p, chunk) ==
  chunk < p.data \/ chunk >= p.data + p.chunk_size * p.n_chunks

\* C11: pool_free is a no-op that changes no ledger bit when the pool handle
\* is NULL, when the chunk pointer is NULL, when the computed index is at least
\* n_chunks, and for every pointer outside the buffer, above or below it.
C11_ForeignFreeIsNoOp ==
  [][/\ \A c \in Ptrs :
          (pool_free(c) /\ (c = NULL \/ Foreign(pool, c))) =>
            pool' = pool /\ fault' = fault
     /\ \A c \in Ptrs :
          (pool_free(c) /\ c # NULL /\ pool.chunk_size >= 1
             /\ ChunkIndex(pool, c) >= pool.n_chunks) =>
            pool' = pool /\ fault' = fault
     /\ \A c \in {NULL, DataAddr} :
          pool_free_null_handle(c) => pool' = pool /\ fault' = fault]_vars

\* C11 restricted to pools with chunk_size >= 1 (where pool_free divides by a
\* non-zero chunk_size).
C11_ForeignFreeIsNoOpNonZeroChunk ==
  [][/\ \A c \in Ptrs :
          (pool_free(c) /\ pool.chunk_size >= 1
             /\ (c = NULL \/ Foreign(pool, c))) =>
            pool' = pool /\ fault' = fault
     /\ \A c \in {NULL, DataAddr} :
          pool_free_null_handle(c) => pool' = pool /\ fault' = fault]_vars

InitOps == {"arena_init", "mem_stack_init", "pool_init"}
DeinitOps == {"arena_deinit", "mem_stack_free", "pool_deinit"}
\* the number of blocks an allocator is made of
Pieces(op) == IF op \in {"pool_init", "pool_deinit"} THEN 3 ELSE 2

\* C12: when an init call returns NULL every block it acquired has been
\* released; after a successful init all its blocks are live; after the deinit
\* that follows every block has been released exactly once. Acquisitions then
\* equal releases.
C12_NoLeakNoDoubleFree ==
  /\ fault # "double free"
  /\ (last.op \in InitOps /\ last.ret = NULL) =>
       heap = {} /\ acquired = released
  /\ (last.op \in InitOps /\ last.ret # NULL) =>
       Cardinality(heap) = Pieces(last.op) /\ acquired = Pieces(last.op)
         /\ released = 0
  /\ last.op \in DeinitOps =>
       heap = {} /\ acquired = Pieces(last.op) /\ released = acquired

C12_Witness ==
  /\ last.op = "pool_init" /\ last.ret = NULL
  /\ acquired = 2 /\ released = 2
  /\ heap = {}

\* bit index of the ledger is set (a bit without a byte in the ledger is neither
\* set nor clear)
BitSet(p, index) == LedgerCovers(p.ledger, index) /\ CHECK_BIT(p.ledger, index) # 0
BitClear(p, index) == LedgerCovers(p.ledger, index) /\ CHECK_BIT(p.ledger, index) = 0

\* C13: over every sequence of pool_alloc and pool_free(p) calls in which each
\* p was returned by an earlier pool_alloc: every returned pointer is
\* data + i * chunk_size for some i below n_chunks, bit i is set exactly when
\* chunk i has been returned and not freed since, and pool_alloc never returns
\* a pointer that is still held.
C13_HonestPoolInvariant ==
  /\ []( ("pool" \in heap /\ honest) =>
           /\ returned \subseteq ChunkAddrs(pool)
           /\ \A i \in 0..(pool.n_chunks - 1) :
                BitSet(pool, i) <=> ChunkPtr(pool, i) \in held )
  /\ [][(pool_alloc /\ honest /\ last'.ret # NULL) => last'.ret \notin held]_vars

\* C13 restricted to pools with chunk_size >= 1.
C13_HonestPoolInvariantNonZeroChunk ==
  /\ []( ("pool" \in heap /\ honest /\ pool.chunk_size >= 1) =>
           /\ fault = "none"
           /\ returned \subseteq ChunkAddrs(pool)
           /\ \A i \in 0..(pool.n_chunks - 1) :
                BitSet(pool, i) <=> ChunkPtr(pool, i) \in held )
  /\ [][(pool_alloc /\ honest /\ pool.chunk_size >= 1 /\ last'.ret # NULL) =>
          last'.ret \notin held]_vars

\* what C14 says of one pool_alloc step from pool p to pool q returning ret
AllocPicksLowestClearBit(p, q, ret) ==
  LET free == {i \in 0..(p.n_chunks - 1) : BitClear(p, i)}
  IN  /\ ret = NULL <=> free = {}
      /\ free # {} =>
           LET i == CHOOSE k \in free : \A j \in free : k <= j
           IN  /\ ret = p.data + i * p.chunk_size
               /\ BitSet(q, i)
               /\ Len(q.ledger) = Len(p.ledger)
               /\ \A j \in 0..(CHAR_BIT * Len(p.ledger) - 1) :
                    j # i => CHECK_BIT(q.ledger, j) = CHECK_BIT(p.ledger, j)

\* C14: in every reachable pool state pool_alloc returns NULL exactly when no
\* bit below n_chunks is clear; otherwise it takes the lowest clear index i,
\* sets bit i and no other bit, and returns data + i * chunk_size.
C14_AllocPicksLowestClearBit ==
  [][pool_alloc => AllocPicksLowestClearBit(pool, pool', last'.ret)]_vars

\* C14 restricted to pools whose ledger has a bit for every chunk.
C14_AllocPicksLowestClearBitFullLedger ==
  [][(pool_alloc /\ CHAR_BIT * Len(pool.ledger) >= pool.n_chunks) =>
        fault' = "none" /\ AllocPicksLowestClearBit(pool, pool', last'.ret)]_vars

\* chunk is the address of a chunk of p whose bit is clear
FreeChunk(p, chunk) ==
  \E i \in 0..(p.n_chunks - 1) : ChunkPtr(p, i) = chunk /\ BitClear(p, i)

\* C15: pool_free on a chunk that is already free completes and leaves the
\* whole ledger, chunk_size, n_chunks and the buffer as they were.
C15_FreeOfFreeChunkIsNoOp ==
  [][\A c \in Ptrs :
        (pool_free(c) /\ FreeChunk(pool, c)) => pool' = pool /\ fault' = fault]_vars

\* C15 restricted to pools with chunk_size >= 1.
C15_FreeOfFreeChunkIsNoOpNonZeroChunk ==
  [][\A c \in Ptrs :
        (pool_free(c) /\ pool.chunk_size >= 1 /\ FreeChunk(pool, c)) =>
          pool' = pool /\ fault' = fault]_vars

\* C16: in every state reached from arena_init(capacity) by arena_alloc calls
\* with any word-sized argument, refused or not, and arena_reset calls:
\* 0 <= size <= capacity, every view handed out since the last reset lies
\* within [0, size), and no call changes capacity.
C16_ArenaInvariant ==
  /\ []( "arena" \in heap =>
           /\ 0 <= arena.size /\ arena.size <= arena.capacity
           /\ \A k \in 1..Len(views) :
                Region(views[k]) \subseteq 0..(arena.size - 1) )
  /\ [][("arena" \in heap /\ "arena" \in heap') =>
          arena'.capacity = arena.capacity]_vars

C16_Witness ==
  /\ "arena" \in heap
  /\ last.op = "arena_alloc" /\ last.ret = NULL /\ last.arg > arena.capacity
  /\ arena.size = arena.capacity /\ arena.capacity >= 2
  /\ Len(views) >= 2

\* C17: after a successful pool_init, for every n_chunks it accepts (also
\* within 7 of SIZE_MAX, where n_chunks + 7 wraps), the ledger is
\* ceil(n_chunks / 8) bytes long, so every index below n_chunks has a bit in
\* it and pool_alloc / pool_free never touch a byte outside it.
C17_LedgerHasBitPerChunk ==
  "pool" \in heap =>
    /\ Len(pool.ledger) = (pool.n_chunks + CHAR_BIT - 1) \div CHAR_BIT
    /\ \A i \in 0..(pool.n_chunks - 1) : LedgerCovers(pool.ledger, i)
    /\ fault # "ledger out of bounds"

\* every sequence of at most n arena_alloc calls gives the same successes,
\* failures and offsets on arena a as on arena b
RECURSIVE SameResults(_, _, _)
SameResults(a, b, n) ==
  \/ n = 0
  \/ \A bytes \in Bytes :
       /\ (arena_alloc_ret(a, bytes) = NULL) <=> (arena_alloc_ret(b, bytes) = NULL)
       /\ arena_alloc_ret(a, bytes) # NULL =>
            arena_alloc_ret(a, bytes) - a.data = arena_alloc_ret(b, bytes) - b.data
       /\ SameResults(arena_alloc_post(a, bytes), arena_alloc_post(b, bytes), n - 1)

\* C18: after arena_reset, from any reachable state, every sequence of
\* arena_alloc calls gives the same successes, failures and offsets as the same
\* sequence on the arena that arena_init builds for the same capacity.
C18_ResetEquivalentToFreshInit ==
  [][arena_reset =>
       SameResults(arena', arena_init_post(arena.capacity), MaxRun)]_vars

C18_Witness ==
  /\ "arena" \in heap
  /\ last.op = "arena_reset"
  /\ arena.capacity = MaxCap
  /\ arena_alloc_run(arena, <<1, MaxCap, MaxCap - 1>>)
       = <<[ok |-> TRUE, off |-> 0], [ok |-> FALSE, off |-> 0], [ok |-> TRUE, off |-> 1]>>

\* C19: in every state reached from mem_stack_init(capacity) by
\* mem_stack_alloc and mem_stack_pop calls with any word-sized argument,
\* refused or not: 0 <= size <= capacity, and no call changes capacity.
C19_StackInvariant ==
  /\ []( "stack" \in heap =>
           0 <= stack.size /\ stack.size <= stack.capacity )
  /\ [][("stack" \in heap /\ "stack" \in heap') =>
          stack'.capacity = stack.capacity]_vars

C19_Witness ==
  /\ "stack" \in heap
  /\ last.op = "mem_stack_alloc" /\ last.arg = SIZE_MAX /\ last.ret # NULL
  /\ stack.size < stack.capacity

\* C20: an allocate call that returns NULL leaves the allocator as it was:
\* arena_alloc and mem_stack_alloc leave size and capacity unchanged,
\* pool_alloc leaves every ledger bit unchanged, so every call gives the same
\* result after the failed call as it would have given before it.
C20_FailedAllocChangesNothing ==
  [][last'.ret = NULL =>
       /\ \A b \in Bytes :
            (last'.op = "arena_alloc" /\ arena_alloc(b)) =>
              /\ arena'.size = arena.size /\ arena'.capacity = arena.capacity
              /\ \A c \in Bytes :
                   arena_alloc_ret(arena', c) = arena_alloc_ret(arena, c)
       /\ \A b \in Bytes :
            (last'.op = "mem_stack_alloc" /\ mem_stack_alloc(b)) =>
              /\ stack'.size = stack.size /\ stack'.capacity = stack.capacity
              /\ \A c \in Bytes :
                   mem_stack_alloc_ret(stack', c) = mem_stack_alloc_ret(stack, c)
       /\ (last'.op = "pool_alloc" /\ pool_alloc) =>
              /\ pool'.ledger = pool.ledger
              /\ pool'.n_chunks = pool.n_chunks]_vars

C20_Witness ==
  /\ "arena" \in heap
  /\ last.op = "arena_alloc" /\ last.ret = NULL
  /\ last.arg <= arena.capacity
  /\ 0 < arena.size /\ arena.size < arena.capacity
  /\ arena_alloc_ret(arena, 1) # NULL

====
